---- MODULE Spec2Model ----
(***************************************************************************)
(* A model of lis.py, the Lispy Scheme interpreter: the reader (tokenize,  *)
(* read_from_tokens, atom), the environments (Env, Env.find), the          *)
(* evaluator (eval, Procedure.__call__), the built-in procedures of        *)
(* standard_env that the examined programs use, and the printer (lispstr). *)
(*                                                                         *)
(* Python objects are tagged records [t |-> kind, ...].  An expression is  *)
(* the same kind of object as a value, as in the source (Symbol = str,     *)
(* List = list).  Environments live in a heap, a sequence of records       *)
(* [vars, outer]; an environment is named by its index in the heap and     *)
(* outer = 0 stands for None.  The global environment is heap[1].          *)
(***************************************************************************)
EXTENDS Integers, Sequences, FiniteSets, TLC

VARIABLES
  heap,   \* the environments: heap[1] is global_env
  pre,    \* the heap before the last top-level eval
  last,   \* the last top-level eval: its expression and its outcome
  steps,  \* number of top-level evals made
  src,    \* the program text given to parse
  buf,    \* the text being read: src, then what lispstr printed
  tree,   \* what parse made of buf
  outs,   \* what lispstr printed, round by round
  stage   \* where the read-print round trip stands

evalVars == <<heap, pre, last, steps>>
readVars == <<src, buf, tree, outs, stage>>
vars == <<heap, pre, last, steps, src, buf, tree, outs, stage>>

---------------------------------------------------------------------------
(* Bounds of the model. *)

\* number of top-level evaluations (REPL iterations) explored
MaxSteps == 3

\* length of the program texts explored exhaustively
MaxTextLen == 5

\* number of times a text is parsed and printed again
MaxRounds == 2

\* nesting depth of eval calls explored before the model reports
\* RecursionError, standing in for the interpreter's recursion limit
MaxDepth == 40

---------------------------------------------------------------------------
(* Objects. *)

Sym(s) == [t |-> "sym", v |-> s]
Num(n) == [t |-> "int", v |-> n]
Bool(b) == [t |-> "bool", v |-> b]
Lst(s) == [t |-> "list", v |-> s]
Prim(s) == [t |-> "prim", v |-> s]
None == [t |-> "none"]
Procedure(parms, body, env) ==
  [t |-> "proc", parms |-> parms, body |-> body, env |-> env]

\* bool is a subclass of int: True and False count as 1 and 0 in arithmetic
IsNumber(v) == v.t \in {"int", "bool"}
IntOf(v) == IF v.t = "bool" THEN (IF v.v THEN 1 ELSE 0) ELSE v.v

\* the truth value Python gives an object in `conseq if eval(test, env) else alt`
Truthy(v) ==
  CASE v.t = "bool" -> v.v
    [] v.t = "int" -> v.v # 0
    [] v.t = "float" -> v.digs # <<>> \/ v.special # ""
    [] v.t = "list" -> Len(v.v) > 0
    [] v.t = "none" -> FALSE
    [] OTHER -> TRUE

\* results of a call: a value and the heap it leaves, or a raised exception
Ret(v, h) == [ok |-> TRUE, val |-> v, err |-> "", heap |-> h]
Raise(e, h) == [ok |-> FALSE, val |-> None, err |-> e, heap |-> h]

---------------------------------------------------------------------------
(* Reading: tokenize, read_from_tokens, atom.  A Python str is a sequence  *)
(* of one-character strings here, so that tokenizing, number syntax and    *)
(* printing are computed character by character.                           *)

\* the ASCII characters str.split() takes for whitespace
Whitespace == {" ", "\t", "\n", "\r", "\f"}
Digits == {"0", "1", "2", "3", "4", "5", "6", "7", "8", "9"}
Signs == {"+", "-"}

\* s.replace(c, r)
RECURSIVE Replace(_, _, _)
Replace(s, c, r) ==
  IF s = <<>> THEN <<>>
  ELSE (IF Head(s) = c THEN r ELSE <<Head(s)>>) \o Replace(Tail(s), c, r)

\* s.split(): the maximal runs of non-whitespace characters, in order
RECURSIVE SplitFrom(_, _)
SplitFrom(s, cur) ==
  IF s = <<>> THEN (IF cur = <<>> THEN <<>> ELSE <<cur>>)
  ELSE IF Head(s) \in Whitespace
  THEN (IF cur = <<>> THEN <<>> ELSE <<cur>>) \o SplitFrom(Tail(s), <<>>)
  ELSE SplitFrom(Tail(s), Append(cur, Head(s)))

Split(s) == SplitFrom(s, <<>>)

tokenize(s) ==
  Split(Replace(Replace(s, "(", <<" ", "(", " ">>), ")", <<" ", ")", " ">>))

AllDigits(s) == \A i \in 1..Len(s) : s[i] \in Digits

DigitVal(c) ==
  CASE c = "0" -> 0 [] c = "1" -> 1 [] c = "2" -> 2 [] c = "3" -> 3
    [] c = "4" -> 4 [] c = "5" -> 5 [] c = "6" -> 6 [] c = "7" -> 7
    [] c = "8" -> 8 [] c = "9" -> 9

RECURSIVE Decimal(_)
Decimal(s) ==
  IF s = <<>> THEN 0 ELSE 10 * Decimal(SubSeq(s, 1, Len(s) - 1)) + DigitVal(s[Len(s)])

HasSign(s) == s # <<>> /\ s[1] \in Signs
Unsigned(s) == IF HasSign(s) THEN Tail(s) ELSE s
SignedInt(s) == IF s[1] = "-" THEN 0 - Decimal(Tail(s)) ELSE Decimal(Unsigned(s))

\* int(token) succeeds: an optional sign and one or more digits
IsIntSyntax(s) == Unsigned(s) # <<>> /\ AllDigits(Unsigned(s))

\* position of the first occurrence of c in s, 0 if there is none
IndexOf(s, c) ==
  IF \E i \in 1..Len(s) : s[i] = c
  THEN CHOOSE i \in 1..Len(s) : s[i] = c /\ \A j \in 1..(i - 1) : s[j] # c
  ELSE 0

\* the mantissa and the exponent of a token, split at the first e or E
ExpAt(s) ==
  LET a == IndexOf(s, "e") b == IndexOf(s, "E")
  IN IF a = 0 THEN b ELSE IF b = 0 THEN a ELSE IF a < b THEN a ELSE b
Mantissa(s) == IF ExpAt(s) = 0 THEN s ELSE SubSeq(s, 1, ExpAt(s) - 1)
Exponent(s) == IF ExpAt(s) = 0 THEN <<"0">> ELSE SubSeq(s, ExpAt(s) + 1, Len(s))
IntPart(m) == IF IndexOf(m, ".") = 0 THEN m ELSE SubSeq(m, 1, IndexOf(m, ".") - 1)
FracPart(m) == IF IndexOf(m, ".") = 0 THEN <<>> ELSE SubSeq(m, IndexOf(m, ".") + 1, Len(m))

\* str.lower() on the letters of inf, infinity and nan
Lower(c) ==
  CASE c = "I" -> "i" [] c = "N" -> "n" [] c = "F" -> "f" [] c = "T" -> "t"
    [] c = "Y" -> "y" [] c = "A" -> "a" [] OTHER -> c
LowerStr(s) == [i \in 1..Len(s) |-> Lower(s[i])]

IsInfSyntax(s) ==
  LowerStr(Unsigned(s)) \in
    {<<"i", "n", "f">>, <<"i", "n", "f", "i", "n", "i", "t", "y">>}
IsNanSyntax(s) == LowerStr(Unsigned(s)) = <<"n", "a", "n">>

\* float(token) succeeds: [sign] digits [. digits] [e [sign] digits] with a
\* digit on at least one side of the point, or [sign] inf, infinity or nan in
\* any case
IsFloatSyntax(s) ==
  LET m == Unsigned(Mantissa(s))
  IN \/ /\ AllDigits(IntPart(m)) /\ AllDigits(FracPart(m))
        /\ IntPart(m) \o FracPart(m) # <<>>
        /\ IsIntSyntax(Exponent(s))
     \/ IsInfSyntax(s)
     \/ IsNanSyntax(s)

RECURSIVE StripLeft(_)
StripLeft(s) == IF s # <<>> /\ Head(s) = "0" THEN StripLeft(Tail(s)) ELSE s

RECURSIVE StripRight(_)
StripRight(s) ==
  IF s # <<>> /\ s[Len(s)] = "0" THEN StripRight(SubSeq(s, 1, Len(s) - 1)) ELSE s

\* digit sequence a, read as the fraction 0.a, is at least 0.b
RECURSIVE FractionAtLeast(_, _)
FractionAtLeast(a, b) ==
  IF b = <<>> THEN TRUE
  ELSE IF a = <<>> THEN \A i \in 1..Len(b) : b[i] = "0"
  ELSE IF DigitVal(a[1]) # DigitVal(b[1]) THEN DigitVal(a[1]) > DigitVal(b[1])
  ELSE FractionAtLeast(Tail(a), Tail(b))

\* a decimal of 0.1797693134862315808 * 10^309 or more is nearer to 2^1024
\* than to the largest double and converts to inf
OverflowDigits ==
  <<"1", "7", "9", "7", "6", "9", "3", "1", "3", "4", "8", "6", "2", "3", "1",
    "5", "8", "0", "8">>

Finite(neg, digs, decpt) ==
  [t |-> "float", neg |-> neg, digs |-> digs, decpt |-> decpt, special |-> ""]
Special(neg, what) ==
  [t |-> "float", neg |-> neg, digs |-> <<>>, decpt |-> 0, special |-> what]

\* the float a token denotes: sign, significant digits d1..dn without leading
\* or trailing zeros, and decpt with value 0.d1..dn * 10^decpt; inf beyond
\* the largest double and zero below the smallest.  Two tokens of at most 15
\* significant digits in the range of the normal doubles denote the same
\* double exactly when these agree.
Float(s) ==
  LET m == Unsigned(Mantissa(s))
      all == IntPart(m) \o FracPart(m)
      lead == StripLeft(all)
      digs == StripRight(lead)
      decpt == Len(IntPart(m)) - (Len(all) - Len(lead)) + SignedInt(Exponent(s))
      neg == s[1] = "-"
  IN IF IsInfSyntax(s) THEN Special(neg, "inf")
     ELSE IF IsNanSyntax(s) THEN Special(neg, "nan")
     ELSE IF digs = <<>> \/ decpt < -323 THEN Finite(neg, <<>>, 0)
     ELSE IF decpt > 309 \/ (decpt = 309 /\ FractionAtLeast(digs, OverflowDigits))
     THEN Special(neg, "inf")
     ELSE Finite(neg, digs, decpt)

\* atom: int(token), else float(token), else Symbol(token)
atom(token) ==
  IF IsIntSyntax(token) THEN Num(SignedInt(token))
  ELSE IF IsFloatSyntax(token) THEN Float(token)
  ELSE Sym(token)

SyntaxError(tokens) ==
  [ok |-> FALSE, val |-> None, err |-> "SyntaxError", rest |-> tokens]
Read(v, tokens) == [ok |-> TRUE, val |-> v, err |-> "", rest |-> tokens]

\* read_from_tokens pops the tokens it reads off the front of the list; rest
\* is the list it leaves
RECURSIVE read_from_tokens(_)

\* the loop `while len(tokens) > 0 and tokens[0] != ")"` and what follows it
RECURSIVE ReadList(_, _)
ReadList(tokens, L) ==
  IF Len(tokens) > 0 /\ tokens[1] # <<")">>
  THEN LET r == read_from_tokens(tokens)
       IN IF ~r.ok THEN r ELSE ReadList(r.rest, Append(L, r.val))
  ELSE IF Len(tokens) = 0 THEN SyntaxError(tokens)
  ELSE Read(Lst(L), Tail(tokens))

\* read_from_tokens gone wrong: a closing parenthesis read as an atom
ReadLenient(tokens) ==
  IF Len(tokens) = 0 THEN SyntaxError(tokens)
  ELSE IF Head(tokens) = <<"(">> THEN ReadList(Tail(tokens), <<>>)
  ELSE Read(atom(Head(tokens)), Tail(tokens))

read_from_tokens(tokens) ==
  IF Len(tokens) = 0 THEN SyntaxError(tokens)
  ELSE IF Head(tokens) = <<"(">> THEN ReadList(Tail(tokens), <<>>)
  ELSE IF Head(tokens) = <<")">> THEN SyntaxError(Tail(tokens))
  ELSE Read(atom(Head(tokens)), Tail(tokens))

parse(program) == read_from_tokens(tokenize(program))

---------------------------------------------------------------------------
(* Printing: lispstr. *)

DigitChar(n) ==
  CASE n = 0 -> "0" [] n = 1 -> "1" [] n = 2 -> "2" [] n = 3 -> "3"
    [] n = 4 -> "4" [] n = 5 -> "5" [] n = 6 -> "6" [] n = 7 -> "7"
    [] n = 8 -> "8" [] n = 9 -> "9"

RECURSIVE NatStr(_)
NatStr(n) ==
  IF n < 10 THEN <<DigitChar(n)>> ELSE Append(NatStr(n \div 10), DigitChar(n % 10))

\* str of an int
IntStr(n) == IF n < 0 THEN <<"-">> \o NatStr(0 - n) ELSE NatStr(n)

Zeros(n) == [i \in 1..n |-> "0"]

\* str of a float: inf, nan, or repr's shortest digits, in exponent
\* notation when decpt <= -4 or decpt > 16 and in fixed notation otherwise
FloatStr(f) ==
  LET n == Len(f.digs)
      e == f.decpt - 1
      body ==
        IF f.special # "" THEN [i \in 1..3 |-> CASE f.special = "inf" -> <<"i", "n", "f">>[i]
                                                 [] f.special = "nan" -> <<"n", "a", "n">>[i]]
        ELSE IF n = 0 THEN <<"0", ".", "0">>
        ELSE IF f.decpt <= -4 \/ f.decpt > 16
        THEN <<f.digs[1]>>
               \o (IF n > 1 THEN <<".">> \o Tail(f.digs) ELSE <<>>)
               \o <<"e", IF e < 0 THEN "-" ELSE "+">>
               \o (LET a == NatStr(IF e < 0 THEN 0 - e ELSE e)
                   IN IF Len(a) < 2 THEN <<"0">> \o a ELSE a)
        ELSE IF f.decpt <= 0
        THEN <<"0", ".">> \o Zeros(0 - f.decpt) \o f.digs
        ELSE IF f.decpt >= n
        THEN f.digs \o Zeros(f.decpt - n) \o <<".", "0">>
        ELSE SubSeq(f.digs, 1, f.decpt) \o <<".">> \o SubSeq(f.digs, f.decpt + 1, n)
  IN (IF f.neg /\ f.special # "nan" THEN <<"-">> ELSE <<>>) \o body

\* Join gone wrong: no separator
RECURSIVE JoinTight(_)
JoinTight(strs) ==
  IF strs = <<>> THEN <<>> ELSE strs[1] \o JoinTight(Tail(strs))

\* " ".join(strs)
RECURSIVE Join(_)
Join(strs) ==
  IF strs = <<>> THEN <<>>
  ELSE IF Len(strs) = 1 THEN strs[1]
  ELSE strs[1] \o <<" ">> \o Join(Tail(strs))

RECURSIVE lispstr(_)
lispstr(exp) ==
  CASE exp.t = "list" ->
         <<"(">> \o Join([i \in 1..Len(exp.v) |-> lispstr(exp.v[i])]) \o <<")">>
    [] exp.t = "int" -> IntStr(exp.v)
    [] exp.t = "float" -> FloatStr(exp)
    [] exp.t = "sym" -> exp.v
    [] exp.t = "bool" -> IF exp.v THEN <<"T", "r", "u", "e">>
                         ELSE <<"F", "a", "l", "s", "e">>
    [] exp.t = "none" -> <<"N", "o", "n", "e">>

---------------------------------------------------------------------------
(* Environments: class Env(dict). *)

\* dict keys must be hashable; a list is not
Hashable(k) == k.t # "list"

\* self.update(zip(parms, args)): pairs up to the shorter of the two, a later
\* pair replacing an earlier one with the same key
Zip(parms, args) ==
  LET m == IF Len(parms) < Len(args) THEN Len(parms) ELSE Len(args)
      lastAt(k) == CHOOSE i \in 1..m :
                     parms[i] = k /\ \A j \in (i + 1)..m : parms[j] # k
  IN [k \in {parms[i] : i \in 1..m} |-> args[lastAt(k)]]

\* NewEnv gone wrong: the parameters bound in the captured environment itself
NewEnvLeaky(parms, args, outer, h) ==
  Append([h EXCEPT ![outer].vars = Zip(parms, args) @@ @],
         [vars |-> Zip(<<>>, <<>>), outer |-> outer])

\* Env(parms, args, outer): a new environment at the end of the heap
NewEnv(parms, args, outer, h) ==
  Append(h, [vars |-> Zip(parms, args), outer |-> outer])

\* Find gone wrong: the outermost environment of the chain where var appears
RECURSIVE FindOutermost(_, _, _)
FindOutermost(h, env, var) ==
  LET up == IF h[env].outer # 0 THEN FindOutermost(h, h[env].outer, var) ELSE 0
  IN IF up # 0 THEN up
     ELSE IF var \in DOMAIN h[env].vars THEN env
     ELSE 0

\* Env.find: the innermost environment of the chain where var appears;
\* 0 stands for the NameError raised when the chain is exhausted
RECURSIVE Find(_, _, _)
Find(h, env, var) ==
  IF var \in DOMAIN h[env].vars THEN env
  ELSE IF h[env].outer # 0 THEN Find(h, h[env].outer, var)
  ELSE 0

\* dict item assignment: env[var] = val
SetItem(h, env, var, val) ==
  [h EXCEPT ![env].vars = (var :> val) @@ @]

---------------------------------------------------------------------------
(* standard_env: the built-in procedures the examined programs use.       *)
(* Operand kinds on which Python computes something this model has no      *)
(* representation for (sequence repetition, string and list ordering)      *)
(* raise "Unmodelled"; NoUnmodelled below checks that no run gets there.   *)

PrimNames ==
  {"+", "-", "*", ">", "<", ">=", "<=", "begin", "car", "list", "not"}

RECURSIVE SumSeq(_)
SumSeq(s) == IF s = <<>> THEN 0 ELSE IntOf(Head(s)) + SumSeq(Tail(s))

RECURSIVE ProdSeq(_)
ProdSeq(s) == IF s = <<>> THEN 1 ELSE IntOf(Head(s)) * ProdSeq(Tail(s))

AllNumbers(args) == \A i \in 1..Len(args) : IsNumber(args[i])

Compare(name, a, b) ==
  CASE name = ">" -> a > b
    [] name = "<" -> a < b
    [] name = ">=" -> a >= b
    [] name = "<=" -> a <= b

HasFloat(args) == \E i \in 1..Len(args) : args[i].t = "float"

\* the built-ins on Python objects; float arithmetic is not represented
ApplyPrim(name, args, h) ==
  CASE name \in {"+", "-", "*", ">", "<", ">=", "<="} /\ HasFloat(args) ->
         Raise("Unmodelled", h)
    [] name = "+" ->
         IF AllNumbers(args) THEN Ret(Num(SumSeq(args)), h)
         ELSE Raise("TypeError", h)
    [] name = "*" ->
         IF AllNumbers(args) THEN Ret(Num(ProdSeq(args)), h)
         ELSE Raise("Unmodelled", h)
    [] name = "-" ->
         IF Len(args) = 2 /\ AllNumbers(args)
         THEN Ret(Num(IntOf(args[1]) - IntOf(args[2])), h)
         ELSE Raise("TypeError", h)
    [] name \in {">", "<", ">=", "<="} ->
         IF Len(args) # 2 THEN Raise("TypeError", h)
         ELSE IF AllNumbers(args)
         THEN Ret(Bool(Compare(name, IntOf(args[1]), IntOf(args[2]))), h)
         ELSE IF args[1].t = args[2].t /\ args[1].t \in {"list", "sym"}
         THEN Raise("Unmodelled", h)
         ELSE Raise("TypeError", h)
    [] name = "begin" ->
         IF Len(args) = 0 THEN Raise("IndexError", h)
         ELSE Ret(args[Len(args)], h)
    [] name = "car" ->
         IF Len(args) # 1 THEN Raise("TypeError", h)
         ELSE IF args[1].t = "list"
         THEN (IF Len(args[1].v) = 0 THEN Raise("IndexError", h)
               ELSE Ret(args[1].v[1], h))
         ELSE IF args[1].t = "sym" THEN Raise("Unmodelled", h)
         ELSE Raise("TypeError", h)
    [] name = "list" -> Ret(Lst(args), h)
    [] name = "not" ->
         IF Len(args) # 1 THEN Raise("TypeError", h)
         ELSE Ret(Bool(~Truthy(args[1])), h)

\* the root environment: Env() updated with the table of built-ins
standard_env ==
  [vars |-> [k \in {Sym(n) : n \in PrimNames} |-> Prim(k.v)], outer |-> 0]

---------------------------------------------------------------------------
(* eval and Procedure.__call__.  Eval(x, env, h, d) evaluates expression x *)
(* in environment env of heap h with d nested calls left, and returns the  *)
(* value together with the heap the evaluation leaves, or the exception.   *)

RECURSIVE Eval(_, _, _, _)

\* EvalArgs gone wrong: the arguments evaluated from the last to the first
RECURSIVE EvalArgsRightToLeft(_, _, _, _)
EvalArgsRightToLeft(exps, env, h, d) ==
  IF exps = <<>> THEN [ok |-> TRUE, vals |-> <<>>, err |-> "", heap |-> h]
  ELSE LET r == Eval(exps[Len(exps)], env, h, d)
       IN IF ~r.ok
          THEN [ok |-> FALSE, vals |-> <<>>, err |-> r.err, heap |-> r.heap]
          ELSE LET rest == EvalArgsRightToLeft(SubSeq(exps, 1, Len(exps) - 1),
                                               env, r.heap, d)
               IN IF ~rest.ok THEN rest
                  ELSE [rest EXCEPT !.vals = Append(@, r.val)]

\* [eval(exp, env) for exp in x[1:]]: the values in order, the heap threaded
\* from each evaluation to the next; an exception ends the comprehension
RECURSIVE EvalArgs(_, _, _, _)
EvalArgs(exps, env, h, d) ==
  IF exps = <<>> THEN [ok |-> TRUE, vals |-> <<>>, err |-> "", heap |-> h]
  ELSE LET r == Eval(Head(exps), env, h, d)
       IN IF ~r.ok
          THEN [ok |-> FALSE, vals |-> <<>>, err |-> r.err, heap |-> r.heap]
          ELSE LET rest == EvalArgs(Tail(exps), env, r.heap, d)
               IN IF ~rest.ok THEN rest
                  ELSE [rest EXCEPT !.vals = <<r.val>> \o @]

\* Procedure.__call__: eval(self.body, Env(self.parms, args, self.env))
ProcedureCall(proc, args, h, d) ==
  IF proc.parms.t # "list" THEN Raise("Unmodelled", h)
  ELSE IF \E i \in 1..Len(proc.parms.v) :
            i <= Len(args) /\ ~Hashable(proc.parms.v[i])
  THEN Raise("TypeError", h)
  ELSE LET h2 == NewEnv(proc.parms.v, args, proc.env, h)
       IN Eval(proc.body, Len(h2), h2, d)

\* proc(*args)
Call(proc, args, h, d) ==
  CASE proc.t = "proc" -> ProcedureCall(proc, args, h, d)
    [] proc.t = "prim" -> ApplyPrim(proc.v, args, h)
    [] OTHER -> Raise("TypeError", h)

\* Lookup gone wrong: None for a name that is not bound, as dict.get gives
LookupOrNone(x, env, h) ==
  LET e == Find(h, env, x)
  IN IF e = 0 THEN Ret(None, h) ELSE Ret(h[e].vars[x], h)

\* variable reference: env.find(x)[x]
Lookup(x, env, h) ==
  LET e == Find(h, env, x)
  IN IF e = 0 THEN Raise("NameError", h) ELSE Ret(h[e].vars[x], h)

\* (if test conseq alt)
IfForm(x, env, h, d) ==
  IF Len(x) # 4 THEN Raise("ValueError", h)
  ELSE LET r == Eval(x[2], env, h, d)
       IN IF ~r.ok THEN r
          ELSE Eval(IF Truthy(r.val) THEN x[3] ELSE x[4], env, r.heap, d)

\* DefineForm gone wrong: the name entered in the environment before the
\* right-hand side is evaluated
DefineFormEager(x, env, h, d) ==
  IF Len(x) # 3 THEN Raise("ValueError", h)
  ELSE IF ~Hashable(x[2]) THEN Raise("TypeError", h)
  ELSE LET r == Eval(x[3], env, SetItem(h, env, x[2], None), d)
       IN IF ~r.ok THEN r
          ELSE Ret(None, SetItem(r.heap, env, x[2], r.val))

\* DefineForm gone wrong: the name bound in the nearest environment of the
\* chain that binds it already, as set! does, and in the current one only
\* when none does
DefineFormNearest(x, env, h, d) ==
  IF Len(x) # 3 THEN Raise("ValueError", h)
  ELSE LET r == Eval(x[3], env, h, d)
       IN IF ~r.ok THEN r
          ELSE IF ~Hashable(x[2]) THEN Raise("TypeError", r.heap)
          ELSE LET e == Find(r.heap, env, x[2])
               IN Ret(None, SetItem(r.heap, IF e = 0 THEN env ELSE e, x[2], r.val))

\* (define var exp): env[var] = eval(exp, env)
DefineForm(x, env, h, d) ==
  IF Len(x) # 3 THEN Raise("ValueError", h)
  ELSE LET r == Eval(x[3], env, h, d)
       IN IF ~r.ok THEN r
          ELSE IF ~Hashable(x[2]) THEN Raise("TypeError", r.heap)
          ELSE Ret(None, SetItem(r.heap, env, x[2], r.val))

\* (set! var exp): env.find(var)[var] = eval(exp, env); Python evaluates the
\* right-hand side of an assignment before the subscripted target
SetForm(x, env, h, d) ==
  IF Len(x) # 3 THEN Raise("ValueError", h)
  ELSE LET r == Eval(x[3], env, h, d)
       IN IF ~r.ok THEN r
          ELSE IF ~Hashable(x[2]) THEN Raise("TypeError", r.heap)
          ELSE LET e == Find(r.heap, env, x[2])
               IN IF e = 0 THEN Raise("NameError", r.heap)
                  ELSE Ret(None, SetItem(r.heap, e, x[2], r.val))

\* LambdaForm gone wrong: the Procedure holds a copy of the environment
LambdaFormCopy(x, env, h) ==
  IF Len(x) # 3 THEN Raise("ValueError", h)
  ELSE Ret(Procedure(x[2], x[3], Len(h) + 1), Append(h, h[env]))

\* (lambda (var...) body): Procedure(parms, body, env)
LambdaForm(x, env, h) ==
  IF Len(x) # 3 THEN Raise("ValueError", h)
  ELSE Ret(Procedure(x[2], x[3], env), h)

\* (proc arg...)
Application(x, env, h, d) ==
  LET p == Eval(x[1], env, h, d)
  IN IF ~p.ok THEN p
     ELSE LET a == EvalArgs(Tail(x), env, p.heap, d)
          IN IF ~a.ok THEN Raise(a.err, a.heap)
             ELSE Call(p.val, a.vals, a.heap, d)

Eval(x, env, h, d) ==
  IF d = 0 THEN Raise("RecursionError", h)
  ELSE IF x.t = "sym" THEN Lookup(x, env, h)
  ELSE IF x.t # "list" THEN Ret(x, h)
  ELSE IF Len(x.v) = 0 THEN Raise("IndexError", h)
  ELSE CASE x.v[1] = Sym("quote") ->
              IF Len(x.v) # 2 THEN Raise("ValueError", h)
              ELSE Ret(x.v[2], h)
         [] x.v[1] = Sym("if") -> IfForm(x.v, env, h, d - 1)
         [] x.v[1] = Sym("define") -> DefineForm(x.v, env, h, d - 1)
         [] x.v[1] = Sym("set!") -> SetForm(x.v, env, h, d - 1)
         [] x.v[1] = Sym("lambda") -> LambdaForm(x.v, env, h)
         [] OTHER -> Application(x.v, env, h, d - 1)

---------------------------------------------------------------------------
(* Lifetime of environments.  An Env made for a call is kept only while    *)
(* something refers to it: a Procedure that captured it, or an Env whose   *)
(* outer it is.  After a top-level evaluation the heap is cut back to the  *)
(* last environment that the global environment or the returned value      *)
(* still reaches.                                                          *)

RECURSIVE EnvsOf(_)
EnvsOf(v) ==
  CASE v.t = "proc" -> {v.env}
    [] v.t = "list" -> UNION {EnvsOf(v.v[i]) : i \in 1..Len(v.v)}
    [] OTHER -> {}

RECURSIVE Reach(_, _)
Reach(h, S) ==
  LET outers == {h[e].outer : e \in S} \ {0}
      held == UNION {UNION {EnvsOf(h[e].vars[k]) : k \in DOMAIN h[e].vars} :
                       e \in S}
      T == S \cup outers \cup held
  IN IF T = S THEN S ELSE Reach(h, T)

Collect(h, val) ==
  LET live == Reach(h, {1} \cup EnvsOf(val))
      m == CHOOSE i \in live : \A j \in live : j <= i
  IN SubSeq(h, 1, m)

---------------------------------------------------------------------------
(* The expressions given to eval.                                          *)

App(s) == Lst(s)
Quote(x) == Lst(<<Sym("quote"), x>>)
If(t, c, a) == Lst(<<Sym("if"), t, c, a>>)
Define(n, x) == Lst(<<Sym("define"), n, x>>)
SetBang(n, x) == Lst(<<Sym("set!"), n, x>>)
Lambda(ps, body) == Lst(<<Sym("lambda"), Lst(ps), body>>)
Begin(s) == Lst(<<Sym("begin")>> \o s)

X == Sym("x")
Y == Sym("y")
Names == {X, Y}

\* (car (quote ())): raises IndexError
CarNil == App(<<Sym("car"), Quote(Lst(<<>>))>>)

\* tests of an if: 0, 1, (), (> 1 2), (< 1 2), x
Tests ==
  {Num(0), Num(1), Quote(Lst(<<>>)),
   App(<<Sym(">"), Num(1), Num(2)>>), App(<<Sym("<"), Num(1), Num(2)>>), X}

IfProgs == {If(t, Quote(Sym("yes")), Quote(Sym("no"))) : t \in Tests}

\* u: a name that nothing binds
Unbound == Sym("u")

\* right-hand sides of define and set!: two constants and two failing ones
Rhs == {Num(0), Num(10), CarNil, Unbound}

DefineProgs ==
  {Define(n, r) : n \in Names, r \in Rhs}
    \cup {Define(X, Begin(<<Define(X, Num(1)), CarNil>>))}

SetProgs ==
  {SetBang(n, r) : n \in Names, r \in Rhs}
    \cup {SetBang(Y, Begin(<<Define(Y, Num(1)), Num(2)>>))}

\* ((lambda (p) (set! x p)) 5): set! from inside a procedure body
InnerSetProgs ==
  {App(<<Lambda(<<p>>, SetBang(X, p)), Num(5)>>) : p \in Names}

\* ((lambda (p) (begin (define x 7) x)) 5): define from inside a procedure
\* body, on the parameter and on a name the call environment does not bind
InnerDefineProgs ==
  {App(<<Lambda(<<p>>, Begin(<<Define(X, Num(7)), X>>)), Num(5)>>) : p \in Names}

\* (define y (* x 2))
DefineTwice == Define(Y, App(<<Sym("*"), X, Num(2)>>))

\* (lambda (x) (lambda (v) (begin (define x v) x)))
MakeDefiner ==
  Lambda(<<X>>, Lambda(<<Sym("v")>>, Begin(<<Define(X, Sym("v")), X>>)))

\* (lambda (x) (* x 2))
Double == Lambda(<<X>>, App(<<Sym("*"), X, Num(2)>>))

\* (lambda (x) (lambda (v) (set! x v)))
MakeSetter == Lambda(<<X>>, Lambda(<<Sym("v")>>, SetBang(X, Sym("v"))))

\* (lambda (x) (lambda (y) (+ x y)))
MakeAdder == Lambda(<<X>>, Lambda(<<Y>>, App(<<Sym("+"), X, Y>>)))

\* (list (define y 1) (set! y 2) y)
ListProg == App(<<Sym("list"), Define(Y, Num(1)), SetBang(Y, Num(2)), Y>>)

\* (1 2): the head of an application is not a procedure
NotCallable == App(<<Num(1), Num(2)>>)

\* (lambda (n) (if (<= n 1) 1 (* n (fact (- n 1)))))
FactBody ==
  Lambda(<<Sym("n")>>,
    If(App(<<Sym("<="), Sym("n"), Num(1)>>), Num(1),
       App(<<Sym("*"), Sym("n"),
             App(<<Sym("fact"), App(<<Sym("-"), Sym("n"), Num(1)>>)>>)>>)))

\* (lambda (n) (if (<= n 1) n (+ (fib (- n 1)) (fib (- n 2)))))
FibBody ==
  Lambda(<<Sym("n")>>,
    If(App(<<Sym("<="), Sym("n"), Num(1)>>), Sym("n"),
       App(<<Sym("+"),
             App(<<Sym("fib"), App(<<Sym("-"), Sym("n"), Num(1)>>)>>),
             App(<<Sym("fib"), App(<<Sym("-"), Sym("n"), Num(2)>>)>>)>>)))

\* (begin (define x 1) (set! x (+ x 1)) (set! x (* x 2)) x)
BeginProg ==
  Begin(<<Define(X, Num(1)),
          SetBang(X, App(<<Sym("+"), X, Num(1)>>)),
          SetBang(X, App(<<Sym("*"), X, Num(2)>>)),
          X>>)

ProcProgs ==
  {Define(Sym("f"), Double),
   App(<<Sym("f"), Num(5)>>),
   App(<<Sym("f"), Num(5), Num(6)>>),
   App(<<Sym("f")>>),
   Define(Sym("g"), App(<<MakeSetter, Num(1)>>)),
   App(<<Sym("g"), Num(9)>>),
   Define(Sym("d"), App(<<MakeDefiner, Num(1)>>)),
   App(<<Sym("d"), Num(9)>>),
   DefineTwice,
   Define(Sym("k"), App(<<MakeAdder, Num(5)>>)),
   App(<<Sym("k"), Num(1)>>),
   Define(Sym("h"), Lambda(<<>>, X)),
   App(<<Sym("h")>>),
   Define(Sym("fact"), FactBody),
   App(<<Sym("fact"), Num(5)>>),
   App(<<Sym("fact"), Num(0)>>),
   Define(Sym("fib"), FibBody),
   App(<<Sym("fib"), Num(6)>>),
   BeginProg,
   ListProg,
   NotCallable}

Programs ==
  {X, Y} \cup IfProgs \cup DefineProgs \cup SetProgs \cup InnerSetProgs
    \cup InnerDefineProgs \cup ProcProgs

---------------------------------------------------------------------------
(* The interpreter as a state machine: global_env = standard_env(), then   *)
(* one eval(x, global_env) after another, as the read-eval-print loop and  *)
(* the callers of eval make them.  pre is the heap the last evaluation     *)
(* started from and last is its expression and outcome.                    *)

NoTree == [ok |-> FALSE, val |-> None, err |-> "", rest |-> <<>>]

InitEval ==
  /\ heap = <<standard_env>>
  /\ pre = <<standard_env>>
  /\ last = [x |-> None, ok |-> TRUE, val |-> None, err |-> ""]
  /\ steps = 0

Init ==
  /\ InitEval
  /\ src = <<>> /\ buf = <<>> /\ tree = NoTree /\ outs = <<>>
  /\ stage = "idle"

Evaluate(x) ==
  /\ steps < MaxSteps
  /\ LET r == Eval(x, 1, heap, MaxDepth)
     IN /\ heap' = Collect(r.heap, r.val)
        /\ last' = [x |-> x, ok |-> r.ok, val |-> r.val, err |-> r.err]
  /\ pre' = heap
  /\ steps' = steps + 1
  /\ UNCHANGED readVars

Next == \E x \in Programs : Evaluate(x)

Spec == Init /\ [][Next]_vars

---------------------------------------------------------------------------
(* The reader and the printer as a state machine: a program text is        *)
(* parsed, the expression is printed with lispstr, and the printed text is *)
(* parsed and printed again.                                               *)

Alphabet == {"(", ")", " ", "0", "1", ".", "-", "e"}

\* "(+ 1 2)"
PlusOneTwo == <<"(", "+", " ", "1", " ", "2", ")">>

\* "(+ 1 2"
Unclosed == <<"(", "+", " ", "1", " ", "2">>

\* "1e1111", beyond the largest double
Overflowing == <<"1", "e", "1", "1", "1", "1">>

\* "-NaN"
MinusNan == <<"-", "N", "a", "N">>

Texts ==
  UNION {[1..n -> Alphabet] : n \in 0..MaxTextLen}
    \cup {PlusOneTwo, Unclosed, Overflowing, MinusNan}

InitRead ==
  /\ InitEval
  /\ src \in Texts
  /\ buf = src /\ tree = NoTree /\ outs = <<>>
  /\ stage = "text"

\* tree = parse(buf)
ParseText ==
  /\ stage = "text"
  /\ tree' = parse(buf)
  /\ stage' = "tree"
  /\ UNCHANGED <<src, buf, outs, evalVars>>

\* lispstr(tree), and the printed text taken as the next text to read
PrintTree ==
  /\ stage = "tree"
  /\ tree.ok
  /\ Len(outs) < MaxRounds
  /\ outs' = Append(outs, lispstr(tree.val))
  /\ buf' = lispstr(tree.val)
  /\ stage' = "text"
  /\ UNCHANGED <<src, tree, evalVars>>

NextRead == ParseText \/ PrintTree

SpecRead == InitRead /\ [][NextRead]_vars

---------------------------------------------------------------------------
(* Vocabulary of the properties.                                           *)

\* no evaluation leaves the part of Python this model represents
NoUnmodelled == last.err # "Unmodelled"

SpecialForms == {Sym("quote"), Sym("if"), Sym("define"), Sym("set!"), Sym("lambda")}

IsForm(x, head, n) == x.t = "list" /\ Len(x.v) = n /\ x.v[1] = head
IsApplication(x) == x.t = "list" /\ Len(x.v) > 0 /\ x.v[1] \notin SpecialForms
IsFalse(v) == v.t = "bool" /\ v.v = FALSE

\* the environments of the chain that starts at env, innermost first
RECURSIVE Chain(_, _)
Chain(h, env) == IF env = 0 THEN <<>> ELSE <<env>> \o Chain(h, h[env].outer)

\* the nearest environment of the chain that binds name n, 0 if none does
Binder(h, env, n) ==
  LET c == Chain(h, env)
      hits == {i \in 1..Len(c) : n \in DOMAIN h[c[i]].vars}
  IN IF hits = {} THEN 0 ELSE c[CHOOSE i \in hits : \A j \in hits : i <= j]

\* h2 differs from h only in the binding of n in environment b
OnlyChanged(h, h2, b, n) ==
  /\ Len(h2) = Len(h)
  /\ \A e \in 1..Len(h) :
       /\ h2[e].outer = h[e].outer
       /\ DOMAIN h2[e].vars = DOMAIN h[e].vars
       /\ \A k \in DOMAIN h[e].vars :
            (e # b \/ k # n) => h2[e].vars[k] = h[e].vars[k]

\* the environments of h are in h2 as they are in h
SameEnvs(h, h2) ==
  Len(h) <= Len(h2) /\ \A e \in 1..Len(h) : h2[e] = h[e]

\* name is bound in the global environment of h to a Procedure made from
\* the (lambda ...) expression lam
BoundTo(h, name, lam) ==
  /\ name \in DOMAIN h[1].vars
  /\ h[1].vars[name].t = "proc"
  /\ h[1].vars[name].parms = lam.v[2]
  /\ h[1].vars[name].body = lam.v[3]

\* the outcome of the last top-level eval is the outcome r
LastIs(r) ==
  /\ last.ok = r.ok
  /\ last.err = r.err
  /\ last.val = r.val

---------------------------------------------------------------------------
(* C1 *)

\* C1: in (if TEST CONSEQ ALT) only the boolean false is falsy: whenever
\* TEST evaluates to anything but boolean false (0 and the empty list
\* included), eval returns the value of CONSEQ, and ALT is taken only when
\* TEST is boolean false.
C1_OnlyFalseIsFalsy ==
  IsForm(last.x, Sym("if"), 4) =>
    LET t == Eval(last.x.v[2], 1, pre, MaxDepth)
        branch == IF IsFalse(t.val) THEN last.x.v[4] ELSE last.x.v[3]
    IN t.ok => LastIs(Eval(branch, 1, t.heap, MaxDepth))

---------------------------------------------------------------------------
(* C2 *)

\* C2: calling a Procedure with a number of arguments other than its number
\* of parameters fails with an arity error.
C2_ArityChecked ==
  IsApplication(last.x) =>
    LET p == Eval(last.x.v[1], 1, pre, MaxDepth)
        a == EvalArgs(Tail(last.x.v), 1, p.heap, MaxDepth)
    IN (/\ p.ok /\ p.val.t = "proc" /\ p.val.parms.t = "list"
        /\ a.ok /\ Len(a.vals) # Len(p.val.parms.v))
       => (~last.ok /\ last.err = "ArityError")

---------------------------------------------------------------------------
(* C3 *)

\* x holds a define or a set! somewhere
RECURSIVE Writes(_)
Writes(x) ==
  /\ x.t = "list"
  /\ \E i \in 1..Len(x.v) :
       x.v[i] \in {Sym("define"), Sym("set!")} \/ Writes(x.v[i])

\* the Procedures bound in the environments of h
ProceduresIn(h) ==
  UNION {{h[e].vars[k] : k \in {j \in DOMAIN h[e].vars : h[e].vars[j].t = "proc"}} :
           e \in 1..Len(h)}

\* neither x nor any Procedure of h holds a define or a set!, so evaluating
\* x in h executes none
WriteFree(x, h) == ~Writes(x) /\ \A p \in ProceduresIn(h) : ~Writes(p.body)

\* body with (quote b[k]) in place of every free occurrence of a name k in
\* the domain of b: what lexical binding of the parameters means
RECURSIVE Subst(_, _)
Subst(body, b) ==
  IF body.t = "sym"
  THEN (IF body \in DOMAIN b THEN Quote(b[body]) ELSE body)
  ELSE IF body.t # "list" \/ Len(body.v) = 0 THEN body
  ELSE IF body.v[1] = Sym("quote") THEN body
  ELSE IF IsForm(body, Sym("lambda"), 3) /\ body.v[2].t = "list"
  THEN LET shadowed == {body.v[2].v[i] : i \in 1..Len(body.v[2].v)}
           b2 == [k \in DOMAIN b \ shadowed |-> b[k]]
       IN Lst(<<body.v[1], body.v[2], Subst(body.v[3], b2)>>)
  ELSE Lst([i \in 1..Len(body.v) |->
              IF i = 1 /\ body.v[1] \in SpecialForms THEN body.v[1]
              ELSE Subst(body.v[i], b)])

\* C3: parameter bindings do not leak.  A call of a Procedure whose
\* evaluation executes no define and no set! leaves every environment that
\* existed before the call as it was, and returns what the body yields in
\* the captured environment with each parameter standing for its argument,
\* whatever the captured and global environments bind under the parameters'
\* names.
C3_ParametersDoNotLeak ==
  (IsApplication(last.x) /\ WriteFree(last.x, pre)) =>
    LET p == Eval(last.x.v[1], 1, pre, MaxDepth)
        a == EvalArgs(Tail(last.x.v), 1, pre, MaxDepth)
    IN (p.ok /\ p.val.t = "proc" /\ a.ok) =>
         /\ SameEnvs(pre, heap)
         /\ LastIs(Eval(Subst(p.val.body, Zip(p.val.parms.v, a.vals)),
                        p.val.env, pre, MaxDepth))

\* (define x 10), (define f (lambda (x) (* x 2))), (f 5): 10, and x is 10
C3_Witness ==
  /\ last.x = App(<<Sym("f"), Num(5)>>)
  /\ X \in DOMAIN pre[1].vars /\ pre[1].vars[X] = Num(10)
  /\ BoundTo(pre, Sym("f"), Double)
  /\ last.ok /\ last.val = Num(10)
  /\ Lookup(X, 1, heap).val = Num(10)

---------------------------------------------------------------------------
(* C4 *)

\* the names set! is tried on in every environment
Probes == Names \cup {Sym("v")}

\* C4: (set! NAME EXPR) overwrites the binding of NAME in the nearest
\* environment of the chain that binds NAME and nothing else, from every
\* environment of the heap.  The environment is looked up when EXPR has
\* been evaluated, so an EXPR that defines NAME in the current environment
\* has that binding overwritten.  From inside a procedure body set! changes
\* the binding of an outer scope when only an outer scope binds NAME, and a
\* lookup from the outer scope then yields the new value.
C4_SetBangNearest ==
  /\ \A e \in 1..Len(heap), n \in Probes :
       \A rhs \in {Num(7), Begin(<<Define(n, Num(1)), Num(7)>>)} :
         LET v == Eval(rhs, e, heap, MaxDepth)
             b == Binder(v.heap, e, n)
             r == Eval(SetBang(n, rhs), e, heap, MaxDepth)
         IN b # 0 =>
              /\ r.ok
              /\ r.heap[b].vars[n] = Num(7)
              /\ OnlyChanged(v.heap, r.heap, b, n)
              /\ Lookup(n, e, r.heap).val = Num(7)
  /\ \A q \in Names :
       (/\ last.x = App(<<Lambda(<<q>>, SetBang(X, q)), Num(5)>>)
        /\ X \in DOMAIN pre[1].vars) =>
         /\ last.ok
         /\ OnlyChanged(pre, heap, 1, X)
         /\ heap[1].vars[X] = IF q = X THEN pre[1].vars[X] ELSE Num(5)
         /\ Lookup(X, 1, heap).val = heap[1].vars[X]

\* ((lambda (y) (set! x y)) 5) with x bound to 10 in the global
\* environment: x is 5 afterwards
C4_Witness ==
  /\ last.x = App(<<Lambda(<<Y>>, SetBang(X, Y)), Num(5)>>)
  /\ X \in DOMAIN pre[1].vars /\ pre[1].vars[X] = Num(10)
  /\ last.ok
  /\ Lookup(X, 1, heap).val = Num(5)

---------------------------------------------------------------------------
(* C5 *)

\* C5 as stated: evaluating a symbol, or a (set! NAME EXPR) form, whose name
\* no environment of the chain binds fails with NameError.
C5_UnboundIsNameError ==
  LET n == IF last.x.t = "sym" THEN last.x ELSE last.x.v[2]
  IN ((last.x.t = "sym" \/ IsForm(last.x, Sym("set!"), 3))
       /\ Binder(pre, 1, n) = 0)
     => (~last.ok /\ last.err = "NameError")

\* C5 as amended: a symbol that no environment of the chain binds fails
\* with NameError.  (set! NAME EXPR) evaluates EXPR first: when that fails
\* the form fails with the error of EXPR, and otherwise it fails with
\* NameError when no environment of the chain binds NAME once EXPR has been
\* evaluated.
C5_UnboundAfterRhsIsNameError ==
  /\ (last.x.t = "sym" /\ Binder(pre, 1, last.x) = 0) =>
       (~last.ok /\ last.err = "NameError" /\ heap = pre)
  /\ IsForm(last.x, Sym("set!"), 3) =>
       LET r == Eval(last.x.v[3], 1, pre, MaxDepth)
       IN /\ ~r.ok => (~last.ok /\ last.err = r.err)
          /\ (r.ok /\ Binder(r.heap, 1, last.x.v[2]) = 0) =>
               (~last.ok /\ last.err = "NameError")
          /\ (r.ok /\ Binder(r.heap, 1, last.x.v[2]) # 0) => last.ok
  /\ \A e \in 1..Len(heap), n \in Probes :
       Binder(heap, e, n) = 0 =>
         /\ LET r == Eval(n, e, heap, MaxDepth)
            IN ~r.ok /\ r.err = "NameError" /\ r.heap = heap
         /\ LET r == Eval(SetBang(n, Num(7)), e, heap, MaxDepth)
            IN ~r.ok /\ r.err = "NameError" /\ r.heap = heap

\* (set! y 10) with y unbound: NameError, and the heap is as it was
C5_Witness ==
  /\ last.x = SetBang(Y, Num(10))
  /\ Binder(pre, 1, Y) = 0
  /\ ~last.ok /\ last.err = "NameError"
  /\ heap = pre

---------------------------------------------------------------------------
(* C6 *)

\* C6: when the evaluation of EXPR in (define NAME EXPR) or (set! NAME EXPR)
\* fails, the form fails with the same error and binds nothing: every
\* environment is as the evaluation of EXPR left it, in the global
\* environment and from every environment of the heap.
C6_FailedRhsBindsNothing ==
  /\ (IsForm(last.x, Sym("define"), 3) \/ IsForm(last.x, Sym("set!"), 3)) =>
       LET r == Eval(last.x.v[3], 1, pre, MaxDepth)
       IN ~r.ok =>
            /\ ~last.ok /\ last.err = r.err
            /\ SameEnvs(heap, r.heap)
            /\ (~Writes(last.x.v[3]) => heap = pre)
  /\ \A e \in 1..Len(heap), n \in Probes, bad \in {CarNil, Unbound} :
       \A x \in {Define(n, bad), SetBang(n, bad)} :
         LET r == Eval(x, e, heap, MaxDepth)
         IN /\ ~r.ok /\ r.heap = heap
            /\ r.err = IF bad = CarNil THEN "IndexError" ELSE "NameError"

\* (define x (car (quote ()))) with x bound to 10: IndexError, x is still 10
C6_Witness ==
  /\ last.x = Define(X, CarNil)
  /\ X \in DOMAIN pre[1].vars /\ pre[1].vars[X] = Num(10)
  /\ ~last.ok /\ last.err = "IndexError"
  /\ heap[1].vars[X] = Num(10)

---------------------------------------------------------------------------
(* C9 *)


Getter == Lambda(<<>>, X)

\* C9: a Procedure holds its defining environment by reference.  A define
\* or a set! made in that environment after the lambda was evaluated is
\* seen by later calls: a call of h = (lambda () x) yields the value x has
\* when h is called, and a lambda bound with define calls itself through
\* its own name (fact 5 = 120, fact 0 = 1, fib 6 = 8).
C9_CapturedByReference ==
  /\ BoundTo(pre, Sym("h"), Getter) /\ last.x = App(<<Sym("h")>>) =>
       LastIs(Lookup(X, 1, pre))
  /\ BoundTo(heap, Sym("h"), Getter) =>
       \A v \in {Num(0), Num(10)} :
         LET d == Eval(Define(X, v), 1, heap, MaxDepth)
             s == Eval(SetBang(X, v), 1, heap, MaxDepth)
         IN /\ Eval(App(<<Sym("h")>>), 1, d.heap, MaxDepth).val = v
            /\ s.ok => Eval(App(<<Sym("h")>>), 1, s.heap, MaxDepth).val = v
  /\ BoundTo(pre, Sym("fact"), FactBody) =>
       /\ last.x = App(<<Sym("fact"), Num(5)>>) => (last.ok /\ last.val = Num(120))
       /\ last.x = App(<<Sym("fact"), Num(0)>>) => (last.ok /\ last.val = Num(1))
  /\ BoundTo(pre, Sym("fib"), FibBody) =>
       (last.x = App(<<Sym("fib"), Num(6)>>) => (last.ok /\ last.val = Num(8)))

\* (define fact (lambda (n) ...)), where the lambda is evaluated before fact
\* is bound, then (fact 5): 120
C9_Witness ==
  /\ last.x = App(<<Sym("fact"), Num(5)>>)
  /\ BoundTo(pre, Sym("fact"), FactBody)
  /\ last.ok /\ last.val = Num(120)

---------------------------------------------------------------------------
(* C10 *)

\* the values of exps[1..n] evaluated one after the other from heap h, each
\* in the heap the one before it left
RECURSIVE InOrder(_, _, _, _)
InOrder(exps, n, env, h) ==
  IF n = 0 THEN [ok |-> TRUE, vals |-> <<>>, err |-> "", heap |-> h]
  ELSE LET before == InOrder(exps, n - 1, env, h)
       IN IF ~before.ok THEN before
          ELSE LET r == Eval(exps[n], env, before.heap, MaxDepth)
               IN [ok |-> r.ok, err |-> r.err, heap |-> r.heap,
                   vals |-> IF r.ok THEN Append(before.vals, r.val) ELSE <<>>]

\* C10: in an application the arguments are all evaluated, left to right,
\* each seeing the effects of those before it, and only then is the
\* procedure invoked; (begin E1 ... En) so performs the effects in order and
\* returns the value of En: the begin of the test returns 4, and
\* (list (define y 1) (set! y 2) y) is (None None 2).
C10_ArgumentsLeftToRight ==
  /\ IsApplication(last.x) =>
       LET p == Eval(last.x.v[1], 1, pre, MaxDepth)
           a == InOrder(Tail(last.x.v), Len(last.x.v) - 1, 1, p.heap)
       IN p.ok =>
            /\ ~a.ok => (~last.ok /\ last.err = a.err /\ SameEnvs(heap, a.heap))
            /\ a.ok => LastIs(Call(p.val, a.vals, a.heap, MaxDepth))
            /\ (a.ok /\ p.val = Prim("begin") /\ Len(a.vals) > 0) =>
                 /\ last.ok /\ last.val = a.vals[Len(a.vals)]
                 /\ SameEnvs(heap, a.heap)
  /\ last.x = BeginProg =>
       (last.ok /\ last.val = Num(4) /\ heap[1].vars[X] = Num(4))
  /\ last.x = ListProg =>
       /\ last.ok /\ last.val = Lst(<<None, None, Num(2)>>)
       /\ heap[1].vars[Y] = Num(2)

\* (begin (define x 1) (set! x (+ x 1)) (set! x (* x 2)) x) returned 4
C10_Witness ==
  /\ last.x = BeginProg
  /\ last.ok /\ last.val = Num(4)
  /\ heap[1].vars[X] = Num(4)

---------------------------------------------------------------------------
(* C7 *)

\* the first parse of the program text has been made
FirstParse == stage = "tree" /\ outs = <<>>

Opens(toks, i) == Cardinality({j \in 1..i : toks[j] = <<"(">>})
Closes(toks, i) == Cardinality({j \in 1..i : toks[j] = <<")">>})

\* some closing parenthesis has no open one before it to match
StrayClose(toks) == \E i \in 1..Len(toks) : Closes(toks, i) > Opens(toks, i)

\* some open parenthesis is never closed
NeverClosed(toks) ==
  \E i \in 1..Len(toks) :
    /\ toks[i] = <<"(">>
    /\ \A j \in i..Len(toks) :
         Opens(toks, j) - Closes(toks, j) > Opens(toks, i - 1) - Closes(toks, i - 1)

\* the first expression of the token sequence is complete: an atom, or an
\* open parenthesis with its matching closing one
FirstComplete(toks) ==
  /\ toks # <<>>
  /\ toks[1] # <<")">>
  /\ toks[1] = <<"(">> => \E j \in 1..Len(toks) : Opens(toks, j) = Closes(toks, j)

\* C7 as stated: parse raises SyntaxError, and returns no expression, when
\* the token sequence is empty, when an open parenthesis is never closed
\* and when a closing parenthesis has no matching open one.
C7_MalformedIsSyntaxError ==
  FirstParse =>
    LET toks == tokenize(src)
    IN (toks = <<>> \/ NeverClosed(toks) \/ StrayClose(toks)) =>
         (~tree.ok /\ tree.err = "SyntaxError")

\* C7 as amended: parse reads one expression and ignores what follows it.
\* It raises SyntaxError exactly when the token sequence is empty, or starts
\* with a closing parenthesis, or starts with an open parenthesis whose
\* matching closing parenthesis never arrives; otherwise it returns the
\* first expression, whatever parentheses follow it.
C7_FirstExpressionDecides ==
  FirstParse =>
    LET toks == tokenize(src)
    IN /\ tree.ok <=> FirstComplete(toks)
       /\ ~tree.ok => tree.err = "SyntaxError"
       /\ src = <<>> => ~tree.ok
       /\ src = <<")">> => ~tree.ok
       /\ src = Unclosed => ~tree.ok

\* parse("(+ 1 2") raised SyntaxError
C7_Witness ==
  /\ FirstParse
  /\ src = Unclosed
  /\ ~tree.ok /\ tree.err = "SyntaxError"

---------------------------------------------------------------------------
(* C8 *)

RECURSIVE ListsIn(_)
ListsIn(x) ==
  IF x.t # "list" THEN 0
  ELSE 1 + (LET n[i \in 0..Len(x.v)] ==
                  IF i = 0 THEN 0 ELSE n[i - 1] + ListsIn(x.v[i])
            IN n[Len(x.v)])

RECURSIVE AtomsIn(_)
AtomsIn(x) ==
  IF x.t # "list" THEN 1
  ELSE LET n[i \in 0..Len(x.v)] ==
             IF i = 0 THEN 0 ELSE n[i - 1] + AtomsIn(x.v[i])
       IN n[Len(x.v)]

\* C8: parsing and printing normalize a text in one round: every printed
\* text parses, and printing what it parses to gives the same text again.
\* The expression parse returns has one list for each pair of parentheses
\* and one atom for each other token of the expression read, and
\* parse("(+ 1 2)") is the list of the symbol +, 1 and 2, printed back as
\* "(+ 1 2)".
C8_PrintParseIdempotent ==
  /\ \A i \in 2..Len(outs) : outs[i] = outs[1]
  /\ (stage = "tree" /\ outs # <<>>) => tree.ok
  /\ (FirstParse /\ tree.ok) =>
       LET toks == tokenize(src)
           used == Len(toks) - Len(tree.rest)
       IN /\ ListsIn(tree.val) = Opens(toks, used)
          /\ ListsIn(tree.val) = Closes(toks, used)
          /\ AtomsIn(tree.val) = used - 2 * ListsIn(tree.val)
  /\ (FirstParse /\ src = PlusOneTwo) =>
       (tree.ok /\ tree.val = Lst(<<Sym(<<"+">>), Num(1), Num(2)>>))
  /\ (src = PlusOneTwo /\ outs # <<>>) => outs[1] = PlusOneTwo

\* "(01)" was printed as "(1)", and "(1)" was printed as "(1)"
C8_Witness ==
  /\ src = <<"(", "0", "1", ")">>
  /\ Len(outs) = 2
  /\ outs[1] = <<"(", "1", ")">>
  /\ outs[2] = outs[1]

---------------------------------------------------------------------------
(* C11 *)

\* h2 is h with n bound to v in environment e: n inserted or overwritten
\* there, every other binding of e and every other environment as in h
BoundOnlyIn(h, h2, e, n, v) ==
  /\ Len(h2) = Len(h)
  /\ \A j \in 1..Len(h) : j # e => h2[j] = h[j]
  /\ h2[e].outer = h[e].outer
  /\ DOMAIN h2[e].vars = DOMAIN h[e].vars \cup {n}
  /\ h2[e].vars[n] = v
  /\ \A k \in DOMAIN h[e].vars : k # n => h2[e].vars[k] = h[e].vars[k]

\* the right-hand sides define is tried with in every environment: a
\* constant, and one that assigns to x on its way
DefineProbes == {Num(7), Begin(<<SetBang(X, Num(3)), Num(7)>>)}

\* (d 9) for d = ((lambda (x) (lambda (v) (begin (define x v) x))) 1)
CallDefiner == App(<<Sym("d"), Num(9)>>)

\* C11: (define NAME EXPR) binds NAME to the value of EXPR in the current
\* environment only.  From every environment of the heap, when EXPR
\* evaluates, the form returns None and the heap is the one EXPR left with
\* NAME inserted or overwritten in the current environment, every enclosing
\* and every other environment unchanged; a lookup of NAME from the current
\* environment then yields the value.  A define executed inside a procedure
\* body binds in the environment of the call: the body sees the new value,
\* and the captured and the global environment are as they were, a binding
\* of NAME neither created nor changed there.  (define x 10) then
\* (define y (* x 2)) binds y to 20.
C11_DefineInnermostOnly ==
  /\ \A e \in 1..Len(heap), n \in Probes, rhs \in DefineProbes :
       LET v == Eval(rhs, e, heap, MaxDepth)
           r == Eval(Define(n, rhs), e, heap, MaxDepth)
       IN v.ok =>
            /\ r.ok /\ r.val = None
            /\ BoundOnlyIn(v.heap, r.heap, e, n, v.val)
            /\ Lookup(n, e, r.heap).val = v.val
  /\ IsForm(last.x, Sym("define"), 3) =>
       LET v == Eval(last.x.v[3], 1, pre, MaxDepth)
       IN v.ok =>
            /\ last.ok /\ last.val = None
            /\ SameEnvs(heap, SetItem(v.heap, 1, last.x.v[2], v.val))
  /\ last.x \in InnerDefineProgs =>
       /\ last.ok /\ last.val = Num(7)
       /\ heap = pre
  /\ (last.x = CallDefiner /\ BoundTo(pre, Sym("d"), MakeDefiner.v[3])) =>
       /\ last.ok /\ last.val = Num(9)
       /\ heap = pre
       /\ pre[pre[1].vars[Sym("d")].env].vars[X] = Num(1)
  /\ (last.x = DefineTwice /\ Binder(pre, 1, X) = 1 /\ pre[1].vars[X] = Num(10)) =>
       (last.ok /\ heap[1].vars[Y] = Num(20))

\* ((lambda (y) (begin (define x 7) x)) 5) with x bound to 10 in the global
\* environment returned 7, and x is still 10
C11_Witness ==
  /\ last.x = App(<<Lambda(<<Y>>, Begin(<<Define(X, Num(7)), X>>)), Num(5)>>)
  /\ X \in DOMAIN pre[1].vars /\ pre[1].vars[X] = Num(10)
  /\ last.ok /\ last.val = Num(7)
  /\ heap[1].vars[X] = Num(10)

====
